---- MODULE Spec2Model ----
(***************************************************************************)
(* Memoizing scalar expression graph (crate teza).                         *)
(*                                                                         *)
(* Two implementations live in the repository:                             *)
(*   - node.rs / input.rs / ops.rs : trait based (InputNode leaves, Node    *)
(*     expressions, Operation operator table);                             *)
(*   - graph.rs : single Node type whose leaves are Ops::Input.            *)
(*                                                                         *)
(* An Rc<RefCell<..>> handle is modelled by the index of the node in the   *)
(* arena `nodes` (allocation order).  Option<f32> is modelled as a         *)
(* sequence of length 0 (None) or 1 (Some(v)).  f32 values are modelled by *)
(* integers, on which +, - and * are exact.                                *)
(***************************************************************************)
EXTENDS Integers, Sequences, FiniteSets, TLC

VARIABLES
    nodes,  \* the arena: nodes[i] is the node behind handle i
    last,   \* the most recent completed operation, its result and the arena before it
    first,  \* first[i]: result of the first compute() on i since the last set(), if any
    stack   \* the call stack of the operation in progress (step-wise specification)

vars == <<nodes, last, first, stack>>

(* ---------------------------- bounds ----------------------------------- *)
MaxNodes == 3
MaxVal == 2
MaxArgs == 2

Vals == 0..MaxVal
Exponents == {0, 2}

(* ---------------------------- Option<f32> ------------------------------ *)
None == <<>>
Some(v) == <<v>>

\* Option::unwrap_or : the default is an already evaluated value.
unwrap_or(o, default) == IF o = None THEN default ELSE o[1]

(* ---------------------------- f32 operators ---------------------------- *)
RECURSIVE powf(_, _)
\* f32::powf for a natural exponent (0^0 = 1).
powf(x, p) == IF p = 0 THEN 1 ELSE x * powf(x, p - 1)

\* f32::sin abstracted to the integer grid: a pure, bounded, periodic function
\* (the nearest integer to the sine of x sixths of a turn, not of x radians).
f32_sin(x) == <<0, 1, 1, 0, -1, -1>>[(x % 6) + 1]

(* ---------------------------- node records ----------------------------- *)
Ids == 1..Len(nodes)

\* InputNode::from_val
InputNode(val) == [kind |-> "InputNode", val |-> val, dependencies |-> <<>>]

\* Node::from_opp
from_opp(opp) == [kind |-> "Node", cache |-> None, dependencies |-> <<>>, opp |-> opp]

\* enum Operation
Operation(tag, args, pow) == [tag |-> tag, args |-> args, pow |-> pow]

IsInput(ns, i) == ns[i].kind = "InputNode"
IsNode(ns, i) == ns[i].kind = "Node"

\* Computable::add_dependency (both impls push to the vector)
add_dependency(ns, x, obj) ==
    [ns EXCEPT ![x].dependencies = Append(@, obj)]

RECURSIVE add_dependencies_dedup(_, _, _, _)
\* variant: an operand that already lists obj is not wired again
add_dependencies_dedup(ns, args, k, obj) ==
    IF k > Len(args) THEN ns
    ELSE IF \E j \in 1..Len(ns[args[k]].dependencies) : ns[args[k]].dependencies[j] = obj
         THEN add_dependencies_dedup(ns, args, k + 1, obj)
         ELSE add_dependencies_dedup(add_dependency(ns, args[k], obj), args, k + 1, obj)

RECURSIVE add_dependencies(_, _, _, _)
\* the sequence of add_dependency calls of a constructor, one per operand position
add_dependencies(ns, args, k, obj) ==
    IF k > Len(args) THEN ns
    ELSE add_dependencies(add_dependency(ns, args[k], obj), args, k + 1, obj)

\* Node::add, add_var, sub, mul, pow, sin : allocate, then wire the operands
construct(ns, opp) ==
    LET obj == Len(ns) + 1
    IN add_dependencies(Append(ns, from_opp(opp)), opp.args, 1, obj)

(* ---------------------------- invalidation ----------------------------- *)
RECURSIVE reset_cache(_, _), reset_each(_, _, _), reset_each_first_only(_, _, _)
RECURSIVE reset_each_until_clean(_, _, _)

\* variant: only the first dependent is visited
reset_each_first_only(ns, deps, k) ==
    IF k > Len(deps) \/ k > 1 THEN ns
    ELSE reset_each_first_only(reset_cache(ns, deps[k]), deps, k + 1)

\* variant: the traversal stops at the first dependent whose cache is already None
reset_each_until_clean(ns, deps, k) ==
    IF k > Len(deps) THEN ns
    ELSE IF IsNode(ns, deps[k]) /\ ns[deps[k]].cache = None THEN ns
    ELSE reset_each_until_clean(reset_cache(ns, deps[k]), deps, k + 1)

\* self.dependencies.iter().for_each(|d| d.borrow_mut().reset_cache())
reset_each(ns, deps, k) ==
    IF k > Len(deps) THEN ns
    ELSE reset_each(reset_cache(ns, deps[k]), deps, k + 1)

\* variant: the node's own cache is cleared but its dependents are not visited
reset_cache_one_hop(ns, i) ==
    IF IsInput(ns, i) THEN ns ELSE [ns EXCEPT ![i].cache = None]

\* variant: the dependents are visited by draining the vector
reset_cache_draining(ns, i) ==
    IF IsInput(ns, i) THEN ns
    ELSE reset_each([ns EXCEPT ![i].cache = None, ![i].dependencies = <<>>],
                    ns[i].dependencies, 1)

\* <Node as Computable>::reset_cache ; <InputNode as Computable>::reset_cache is empty
reset_cache(ns, i) ==
    IF IsInput(ns, i) THEN ns
    ELSE reset_each([ns EXCEPT ![i].cache = None], ns[i].dependencies, 1)

\* variant: the value is stored and nothing is invalidated
set_no_invalidate(ns, i, val) == [ns EXCEPT ![i].val = val]

\* variant: the value is stored and every cache of the arena is cleared
set_clear_all(ns, i, val) ==
    [k \in 1..Len(ns) |->
        IF k = i THEN [ns[k] EXCEPT !.val = val]
        ELSE IF IsNode(ns, k) THEN [ns[k] EXCEPT !.cache = None] ELSE ns[k]]

\* variant: the leaf's dependents are visited by draining the vector
set_draining(ns, i, val) ==
    reset_each([ns EXCEPT ![i].val = val, ![i].dependencies = <<>>], ns[i].dependencies, 1)

\* <InputNode as Input>::set
set(ns, i, val) ==
    reset_each([ns EXCEPT ![i].val = val], ns[i].dependencies, 1)

(* ---------------------------- evaluation ------------------------------- *)
\* A machine state threaded through the recursion: the arena and the log of
\* compute() invocations in call order.
RECURSIVE compute(_, _), Operation_compute(_, _), fold_add(_, _, _, _)
RECURSIVE fold_add_overwrite(_, _, _, _)

\* variant: the closure returns the operand's result instead of acc + result
fold_add_overwrite(m, args, k, acc) ==
    IF k > Len(args) THEN [m |-> m, ret |-> acc]
    ELSE LET r == compute(m, args[k])
         IN fold_add_overwrite(r.m, args, k + 1, r.ret)

\* Operation::compute, AddVar arm: args.iter().fold(0.0, |acc, arg| acc + arg.compute())
fold_add(m, args, k, acc) ==
    IF k > Len(args) THEN [m |-> m, ret |-> acc]
    ELSE LET r == compute(m, args[k])
         IN fold_add(r.m, args, k + 1, acc + r.ret)

\* variant: the Sub arm subtracts the first result from the second
Operation_compute_sub_reversed(m, opp) ==
    CASE opp.tag = "Add" ->
           LET x == compute(m, opp.args[1])
               y == compute(x.m, opp.args[2])
           IN [m |-> y.m, ret |-> x.ret + y.ret]
      [] opp.tag = "AddVar" -> fold_add(m, opp.args, 1, 0)
      [] opp.tag = "Sub" ->
           LET x == compute(m, opp.args[1])
               y == compute(x.m, opp.args[2])
           IN [m |-> y.m, ret |-> y.ret - x.ret]
      [] opp.tag = "Mul" ->
           LET x == compute(m, opp.args[1])
               y == compute(x.m, opp.args[2])
           IN [m |-> y.m, ret |-> x.ret * y.ret]
      [] opp.tag = "Pow" ->
           LET x == compute(m, opp.args[1])
           IN [m |-> x.m, ret |-> powf(x.ret, opp.pow)]
      [] opp.tag = "Sin" ->
           LET x == compute(m, opp.args[1])
           IN [m |-> x.m, ret |-> f32_sin(x.ret)]

\* Operation::compute
Operation_compute(m, opp) ==
    CASE opp.tag = "Add" ->
           LET x == compute(m, opp.args[1])
               y == compute(x.m, opp.args[2])
           IN [m |-> y.m, ret |-> x.ret + y.ret]
      [] opp.tag = "AddVar" -> fold_add(m, opp.args, 1, 0)
      [] opp.tag = "Sub" ->
           LET x == compute(m, opp.args[1])
               y == compute(x.m, opp.args[2])
           IN [m |-> y.m, ret |-> x.ret - y.ret]
      [] opp.tag = "Mul" ->
           LET x == compute(m, opp.args[1])
               y == compute(x.m, opp.args[2])
           IN [m |-> y.m, ret |-> x.ret * y.ret]
      [] opp.tag = "Pow" ->
           LET x == compute(m, opp.args[1])
           IN [m |-> x.m, ret |-> powf(x.ret, opp.pow)]
      [] opp.tag = "Sin" ->
           LET x == compute(m, opp.args[1])
           IN [m |-> x.m, ret |-> f32_sin(x.ret)]

\* variant: the computed value is returned but never stored in the cache
Node_compute_no_store(m, i) ==
    LET old == m.nodes[i].cache
        r == Operation_compute(m, m.nodes[i].opp)
    IN [m |-> r.m, ret |-> unwrap_or(old, r.ret)]

\* variant: storing a freshly computed value also invalidates the node's dependents
Node_compute_reset_dependents(m, i) ==
    LET old == m.nodes[i].cache
        r == Operation_compute(m, m.nodes[i].opp)
        ns2 == reset_each(r.m.nodes, r.m.nodes[i].dependencies, 1)
        m2 == [r.m EXCEPT !.nodes = [ns2 EXCEPT ![i].cache = Some(r.ret)]]
    IN [m |-> m2, ret |-> unwrap_or(old, r.ret)]

\* <Node as Computable>::compute
\*   self.cache.unwrap_or({ let val = self.opp.compute(); self.cache = Some(val); val })
\* The receiver self.cache is copied first; the argument block is evaluated
\* before unwrap_or is entered, whatever the cache holds.
Node_compute(m, i) ==
    LET old == m.nodes[i].cache
        r == Operation_compute(m, m.nodes[i].opp)
        m2 == [r.m EXCEPT !.nodes[i].cache = Some(r.ret)]
    IN [m |-> m2, ret |-> unwrap_or(old, r.ret)]

\* variant: reading a leaf also invalidates its dependents
InputNode_compute_invalidating(m, i) ==
    [m |-> [m EXCEPT !.nodes = reset_each(m.nodes, m.nodes[i].dependencies, 1)],
     ret |-> m.nodes[i].val]

\* <InputNode as Computable>::compute
InputNode_compute(m, i) == [m |-> m, ret |-> m.nodes[i].val]

\* dyn Computable::compute, dispatched on the node's type
compute(m, i) ==
    LET m1 == [m EXCEPT !.calls = Append(@, i)]
    IN IF IsInput(m.nodes, i) THEN InputNode_compute(m1, i) ELSE Node_compute(m1, i)

(* ---------------------------- operations ------------------------------- *)
NoOp == [op |-> "none", node |-> 0, arg |-> 0, ret |-> 0, calls |-> <<>>, pre |-> <<>>]

Op(op, node, arg, ret, calls) ==
    [op |-> op, node |-> node, arg |-> arg, ret |-> ret, calls |-> calls, pre |-> nodes]

ArgLists == UNION {[1..n -> Ids] : n \in 0..MaxArgs}

Init ==
    /\ nodes = <<>>
    /\ last = NoOp
    /\ first = <<>>
    /\ stack = <<>>

from_val(v) ==
    /\ Len(nodes) < MaxNodes
    /\ nodes' = Append(nodes, InputNode(v))
    /\ last' = Op("from_val", Len(nodes) + 1, v, 0, <<>>)
    /\ first' = Append(first, None)
    /\ UNCHANGED stack

Build(opp) ==
    /\ Len(nodes) < MaxNodes
    /\ nodes' = construct(nodes, opp)
    /\ last' = Op(opp.tag, Len(nodes) + 1, 0, 0, <<>>)
    /\ first' = Append(first, None)
    /\ UNCHANGED stack

add(x, y) == Build(Operation("Add", <<x, y>>, 0))
add_var(args) == Build(Operation("AddVar", args, 0))
sub(x, y) == Build(Operation("Sub", <<x, y>>, 0))
mul(x, y) == Build(Operation("Mul", <<x, y>>, 0))
pow(x, p) == Build(Operation("Pow", <<x>>, p))
sin(x) == Build(Operation("Sin", <<x>>, 0))

\* handle.borrow_mut().compute()
Compute(i) ==
    LET r == compute([nodes |-> nodes, calls |-> <<>>], i)
    IN /\ nodes' = r.m.nodes
       /\ last' = Op("compute", i, 0, r.ret, r.m.calls)
       /\ first' = IF first[i] = None THEN [first EXCEPT ![i] = Some(r.ret)] ELSE first
       /\ UNCHANGED stack

\* leaf.borrow_mut().set(v) : only InputNode implements Input
Set(i, v) ==
    /\ IsInput(nodes, i)
    /\ nodes' = set(nodes, i, v)
    /\ last' = Op("set", i, v, 0, <<>>)
    /\ first' = [k \in 1..Len(nodes) |-> None]
    /\ UNCHANGED stack

Next ==
    \/ \E v \in Vals : from_val(v)
    \/ \E x, y \in Ids : add(x, y)
    \/ \E args \in ArgLists : add_var(args)
    \/ \E x, y \in Ids : sub(x, y)
    \/ \E x, y \in Ids : mul(x, y)
    \/ \E x \in Ids, p \in Exponents : pow(x, p)
    \/ \E x \in Ids : sin(x)
    \/ \E i \in Ids : Compute(i)
    \/ \E i \in Ids, v \in Vals : Set(i, v)

Spec == Init /\ [][Next]_vars

(* ---------------------------- graph.rs --------------------------------- *)
\* The single-type implementation: every node is a graph::Node {cache, deps, val},
\* a leaf being a node whose val is Ops::Input(x).  It is run as its own
\* specification, SpecG, over the same variables.

\* enum Ops (crate::ops::Ops as graph.rs uses it)
Ops(tag, x, args, exponent) == [tag |-> tag, x |-> x, args |-> args, pow |-> exponent]

\* graph::Node::from_ops
from_ops(val) == [cache |-> None, deps |-> <<>>, val |-> val]

\* graph::Node::input
input(x) == [from_ops(Ops("Input", x, <<>>, 0)) EXCEPT !.cache = Some(x)]

IsOpsInput(ns, i) == ns[i].val.tag = "Input"

\* graph::Node::add_dep
add_dep(ns, x, dep) == [ns EXCEPT ![x].deps = Append(@, dep)]

RECURSIVE add_deps(_, _, _, _)
\* the add_dep calls of a graph.rs constructor, one per operand position
add_deps(ns, args, k, obj) ==
    IF k > Len(args) THEN ns
    ELSE add_deps(add_dep(ns, args[k], obj), args, k + 1, obj)

\* graph::Node::add, add_var, sub, mul, pow, sin
graph_construct(ns, val) ==
    add_deps(Append(ns, from_ops(val)), val.args, 1, Len(ns) + 1)

RECURSIVE graph_reset_cache(_, _), graph_reset_each(_, _, _)

\* self.deps.iter().for_each(|d| d.borrow_mut().reset_cache())
graph_reset_each(ns, deps, k) ==
    IF k > Len(deps) THEN ns
    ELSE graph_reset_each(graph_reset_cache(ns, deps[k]), deps, k + 1)

\* graph::Node::reset_cache
graph_reset_cache(ns, i) ==
    graph_reset_each([ns EXCEPT ![i].cache = None], ns[i].deps, 1)

\* Ops::set : stores the new input value
Ops_set(ops, val) == [ops EXCEPT !.x = val]

\* variant: the Ops::Input guard is missing
graph_set_unguarded(ns, i, val) ==
    graph_reset_each([ns EXCEPT ![i].cache = Some(val)], ns[i].deps, 1)

\* variant: the new value is stored but the leaf's own cache is not rewritten
graph_set_stale_cache(ns, i, val) ==
    IF IsOpsInput(ns, i)
    THEN graph_reset_each([ns EXCEPT ![i].val = Ops_set(@, val)], ns[i].deps, 1)
    ELSE ns

\* graph::Node::set
graph_set(ns, i, val) ==
    IF IsOpsInput(ns, i)
    THEN graph_reset_each(
             [ns EXCEPT ![i].val = Ops_set(@, val), ![i].cache = Some(val)],
             ns[i].deps, 1)
    ELSE ns

RECURSIVE graph_compute(_, _), Ops_compute(_, _), graph_fold_add(_, _, _, _)

\* Ops::compute, AddVar arm
graph_fold_add(m, args, k, acc) ==
    IF k > Len(args) THEN [m |-> m, ret |-> acc]
    ELSE LET r == graph_compute(m, args[k])
         IN graph_fold_add(r.m, args, k + 1, acc + r.ret)

\* Ops::compute : the operator table over graph::Node operands; Input(x) is x
Ops_compute(m, ops) ==
    CASE ops.tag = "Input" -> [m |-> m, ret |-> ops.x]
      [] ops.tag = "Add" ->
           LET x == graph_compute(m, ops.args[1])
               y == graph_compute(x.m, ops.args[2])
           IN [m |-> y.m, ret |-> x.ret + y.ret]
      [] ops.tag = "AddVar" -> graph_fold_add(m, ops.args, 1, 0)
      [] ops.tag = "Sub" ->
           LET x == graph_compute(m, ops.args[1])
               y == graph_compute(x.m, ops.args[2])
           IN [m |-> y.m, ret |-> x.ret - y.ret]
      [] ops.tag = "Mul" ->
           LET x == graph_compute(m, ops.args[1])
               y == graph_compute(x.m, ops.args[2])
           IN [m |-> y.m, ret |-> x.ret * y.ret]
      [] ops.tag = "Pow" ->
           LET x == graph_compute(m, ops.args[1])
           IN [m |-> x.m, ret |-> powf(x.ret, ops.pow)]
      [] ops.tag = "Sin" ->
           LET x == graph_compute(m, ops.args[1])
           IN [m |-> x.m, ret |-> f32_sin(x.ret)]

\* <graph::Node as Computable>::compute : the same eager unwrap_or as node.rs
graph_compute(m, i) ==
    LET m1 == [m EXCEPT !.calls = Append(@, i)]
        old == m.nodes[i].cache
        r == Ops_compute(m1, m.nodes[i].val)
        m2 == [r.m EXCEPT !.nodes[i].cache = Some(r.ret)]
    IN [m |-> m2, ret |-> unwrap_or(old, r.ret)]

GInput(v) ==
    /\ Len(nodes) < MaxNodes
    /\ nodes' = Append(nodes, input(v))
    /\ last' = Op("input", Len(nodes) + 1, v, 0, <<>>)
    /\ first' = Append(first, None)
    /\ UNCHANGED stack

GBuild(val) ==
    /\ Len(nodes) < MaxNodes
    /\ nodes' = graph_construct(nodes, val)
    /\ last' = Op(val.tag, Len(nodes) + 1, 0, 0, <<>>)
    /\ first' = Append(first, None)
    /\ UNCHANGED stack

GAdd(x, y) == GBuild(Ops("Add", 0, <<x, y>>, 0))
GAddVar(args) == GBuild(Ops("AddVar", 0, args, 0))
GSub(x, y) == GBuild(Ops("Sub", 0, <<x, y>>, 0))
GMul(x, y) == GBuild(Ops("Mul", 0, <<x, y>>, 0))
GPow(x, p) == GBuild(Ops("Pow", 0, <<x>>, p))
GSin(x) == GBuild(Ops("Sin", 0, <<x>>, 0))

GCompute(i) ==
    LET r == graph_compute([nodes |-> nodes, calls |-> <<>>], i)
    IN /\ nodes' = r.m.nodes
       /\ last' = Op("compute", i, 0, r.ret, r.m.calls)
       /\ first' = IF first[i] = None THEN [first EXCEPT ![i] = Some(r.ret)] ELSE first
       /\ UNCHANGED stack

\* handle.borrow_mut().set(v) on any graph::Node, leaf or not
GSet(i, v) ==
    /\ nodes' = graph_set(nodes, i, v)
    /\ last' = Op("set", i, v, 0, <<>>)
    /\ first' = [k \in 1..Len(nodes) |-> None]
    /\ UNCHANGED stack

NextG ==
    \/ \E v \in Vals : GInput(v)
    \/ \E x, y \in Ids : GAdd(x, y)
    \/ \E args \in ArgLists : GAddVar(args)
    \/ \E x, y \in Ids : GSub(x, y)
    \/ \E x, y \in Ids : GMul(x, y)
    \/ \E x \in Ids, p \in Exponents : GPow(x, p)
    \/ \E x \in Ids : GSin(x)
    \/ \E i \in Ids : GCompute(i)
    \/ \E i \in Ids, v \in Vals : GSet(i, v)

SpecG == Init /\ [][NextG]_vars

(* ---------------------------- step-wise execution ---------------------- *)
\* The same node.rs / input.rs / ops.rs code, one call or return per step.  A frame
\* is an activation of a method on a node; every frame but a constructor's holds the
\* RefMut obtained by borrow_mut() on its node until it returns.
\*   k   : the operand or dependent the activation handles next (0: body not entered)
\*   res : the operand results received so far (compute)
\*   old : the copy of self.cache taken on entry (compute)
\*   arg : set's value, or the dependent pushed by add_dependency
Frame(fn, node, k, old, arg) ==
    [fn |-> fn, node |-> node, k |-> k, res |-> <<>>, old |-> old, arg |-> arg]

Top(st) == st[Len(st)]
Pop(st) == SubSeq(st, 1, Len(st) - 1)

\* variant: a returning reset_cache does not advance its caller's iterator
Return_no_advance(st, v) ==
    LET rest == Pop(st)
    IN IF rest = <<>> THEN rest
       ELSE [rest EXCEPT ![Len(rest)] =
                [@ EXCEPT !.k = IF Top(st).fn = "reset_cache" THEN @ ELSE @ + 1,
                          !.res = IF Top(rest).fn = "compute" THEN Append(@, v) ELSE @]]

\* the top activation returns v: its caller receives the result and moves on to its
\* next operand or dependent
Return(st, v) ==
    LET rest == Pop(st)
    IN IF rest = <<>> THEN rest
       ELSE [rest EXCEPT ![Len(rest)] =
                [@ EXCEPT !.k = @ + 1,
                          !.res = IF Top(rest).fn = "compute" THEN Append(@, v) ELSE @]]

\* x.borrow_mut().compute() : entry into Computable::compute on node i
ComputeFrame(ns, i) ==
    Frame("compute", i, 1, IF IsNode(ns, i) THEN ns[i].cache ELSE None, 0)

RECURSIVE fold_sum(_, _, _)
\* fold(0.0, |acc, arg| acc + ..) over the results received
fold_sum(res, k, acc) == IF k > Len(res) THEN acc ELSE fold_sum(res, k + 1, acc + res[k])

\* Operation::compute : the value an arm builds from its operands' results
Operation_result(opp, res) ==
    CASE opp.tag = "Add" -> res[1] + res[2]
      [] opp.tag = "AddVar" -> fold_sum(res, 1, 0)
      [] opp.tag = "Sub" -> res[1] - res[2]
      [] opp.tag = "Mul" -> res[1] * res[2]
      [] opp.tag = "Pow" -> powf(res[1], opp.pow)
      [] opp.tag = "Sin" -> f32_sin(res[1])

\* every Operation over the existing handles
Operations ==
    {Operation(t, <<x, y>>, 0) : t \in {"Add", "Sub", "Mul"}, x \in Ids, y \in Ids}
      \cup {Operation("AddVar", args, 0) : args \in ArgLists}
      \cup {Operation("Pow", <<x>>, p) : x \in Ids, p \in Exponents}
      \cup {Operation("Sin", <<x>>, 0) : x \in Ids}

\* InputNode::from_val (no borrow, no call)
CallFromVal(v) ==
    /\ stack = <<>>
    /\ Len(nodes) < MaxNodes
    /\ nodes' = Append(nodes, InputNode(v))
    /\ UNCHANGED <<last, first, stack>>

\* Node::add / add_var / sub / mul / pow / sin entered: from_opp has allocated obj
CallConstruct(opp) ==
    /\ stack = <<>>
    /\ Len(nodes) < MaxNodes
    /\ nodes' = Append(nodes, from_opp(opp))
    /\ stack' = <<Frame("construct", Len(nodes) + 1, 1, None, 0)>>
    /\ UNCHANGED <<last, first>>

\* handle.borrow_mut().compute() entered
CallCompute(i) ==
    /\ stack = <<>>
    /\ stack' = <<ComputeFrame(nodes, i)>>
    /\ UNCHANGED <<nodes, last, first>>

\* leaf.borrow_mut().set(v) entered
CallSet(i, v) ==
    /\ stack = <<>>
    /\ IsInput(nodes, i)
    /\ stack' = <<Frame("set", i, 0, None, v)>>
    /\ UNCHANGED <<nodes, last, first>>

\* variant: the constructor registers the operand, not obj, as the operand's dependent
StepConstruct_self_dependency ==
    /\ stack # <<>>
    /\ Top(stack).fn = "construct"
    /\ LET f == Top(stack)
           args == nodes[f.node].opp.args
       IN stack' = IF f.k <= Len(args)
                   THEN Append(stack, Frame("add_dependency", args[f.k], 0, None, args[f.k]))
                   ELSE Return(stack, 0)
    /\ UNCHANGED <<nodes, last, first>>

\* one step of a constructor: the next x.borrow_mut().add_dependency(obj.clone()), or return
StepConstruct ==
    /\ stack # <<>>
    /\ Top(stack).fn = "construct"
    /\ LET f == Top(stack)
           args == nodes[f.node].opp.args
       IN stack' = IF f.k <= Len(args)
                   THEN Append(stack, Frame("add_dependency", args[f.k], 0, None, f.node))
                   ELSE Return(stack, 0)
    /\ UNCHANGED <<nodes, last, first>>

\* Computable::add_dependency : push and return
StepAddDependency ==
    /\ stack # <<>>
    /\ Top(stack).fn = "add_dependency"
    /\ nodes' = add_dependency(nodes, Top(stack).node, Top(stack).arg)
    /\ stack' = Return(stack, 0)
    /\ UNCHANGED <<last, first>>

\* variant: a Node calls its operands from the last to the first
StepCompute_right_to_left ==
    /\ stack # <<>>
    /\ Top(stack).fn = "compute"
    /\ LET f == Top(stack)
           i == f.node
       IN IF IsInput(nodes, i)
          THEN /\ stack' = Return(stack, nodes[i].val)
               /\ nodes' = nodes
          ELSE IF f.k <= Len(nodes[i].opp.args)
          THEN /\ stack' = Append(stack, ComputeFrame(nodes,
                               nodes[i].opp.args[Len(nodes[i].opp.args) + 1 - f.k]))
               /\ nodes' = nodes
          ELSE LET val == Operation_result(nodes[i].opp, f.res)
               IN /\ nodes' = [nodes EXCEPT ![i].cache = Some(val)]
                  /\ stack' = Return(stack, unwrap_or(f.old, val))
    /\ UNCHANGED <<last, first>>

\* one step of Computable::compute : a leaf returns its value; a Node calls its next
\* operand, or, all operands done, stores Some(val) and returns unwrap_or(old, val)
StepCompute ==
    /\ stack # <<>>
    /\ Top(stack).fn = "compute"
    /\ LET f == Top(stack)
           i == f.node
       IN IF IsInput(nodes, i)
          THEN /\ stack' = Return(stack, nodes[i].val)
               /\ nodes' = nodes
          ELSE IF f.k <= Len(nodes[i].opp.args)
          THEN /\ stack' = Append(stack, ComputeFrame(nodes, nodes[i].opp.args[f.k]))
               /\ nodes' = nodes
          ELSE LET val == Operation_result(nodes[i].opp, f.res)
               IN /\ nodes' = [nodes EXCEPT ![i].cache = Some(val)]
                  /\ stack' = Return(stack, unwrap_or(f.old, val))
    /\ UNCHANGED <<last, first>>

\* one step of Computable::reset_cache : InputNode's body is empty; a Node clears its
\* cache, then calls d.borrow_mut().reset_cache() on each dependent in turn
StepResetCache ==
    /\ stack # <<>>
    /\ Top(stack).fn = "reset_cache"
    /\ LET f == Top(stack)
           i == f.node
       IN IF IsInput(nodes, i)
          THEN /\ stack' = Return(stack, 0)
               /\ nodes' = nodes
          ELSE IF f.k = 0
          THEN /\ nodes' = [nodes EXCEPT ![i].cache = None]
               /\ stack' = [stack EXCEPT ![Len(stack)].k = 1]
          ELSE IF f.k <= Len(nodes[i].dependencies)
          THEN /\ stack' = Append(stack, Frame("reset_cache", nodes[i].dependencies[f.k], 0, None, 0))
               /\ nodes' = nodes
          ELSE /\ stack' = Return(stack, 0)
               /\ nodes' = nodes
    /\ UNCHANGED <<last, first>>

\* one step of Input::set : store the value, then reset each dependent in turn
StepSet ==
    /\ stack # <<>>
    /\ Top(stack).fn = "set"
    /\ LET f == Top(stack)
           i == f.node
       IN IF f.k = 0
          THEN /\ nodes' = [nodes EXCEPT ![i].val = f.arg]
               /\ stack' = [stack EXCEPT ![Len(stack)].k = 1]
          ELSE IF f.k <= Len(nodes[i].dependencies)
          THEN /\ stack' = Append(stack, Frame("reset_cache", nodes[i].dependencies[f.k], 0, None, 0))
               /\ nodes' = nodes
          ELSE /\ stack' = Return(stack, 0)
               /\ nodes' = nodes
    /\ UNCHANGED <<last, first>>

Step ==
    \/ StepConstruct
    \/ StepAddDependency
    \/ StepCompute
    \/ StepResetCache
    \/ StepSet

NextStep ==
    \/ \E v \in Vals : CallFromVal(v)
    \/ \E opp \in Operations : CallConstruct(opp)
    \/ \E i \in Ids : CallCompute(i)
    \/ \E i \in Ids, v \in Vals : CallSet(i, v)
    \/ StepConstruct
    \/ StepAddDependency
    \/ StepCompute
    \/ StepResetCache
    \/ StepSet

\* Single-threaded and synchronous: a call that has been entered keeps running.
SpecStep == Init /\ [][NextStep]_vars /\ WF_vars(Step)

(* ---------------------------- reference semantics ---------------------- *)
Constructors == {"Add", "AddVar", "Sub", "Mul", "Pow", "Sin"}

RECURSIVE Eval(_, _), Closure(_, _), Count(_, _)

\* left fold of + with seed 0 over a sequence of values
RECURSIVE FoldPlus(_, _)
FoldPlus(vs, acc) == IF vs = <<>> THEN acc ELSE FoldPlus(Tail(vs), acc + Head(vs))

\* the operator table applied to operand values
Apply(opp, vs) ==
    CASE opp.tag = "Add" -> vs[1] + vs[2]
      [] opp.tag = "AddVar" -> FoldPlus(vs, 0)
      [] opp.tag = "Sub" -> vs[1] - vs[2]
      [] opp.tag = "Mul" -> vs[1] * vs[2]
      [] opp.tag = "Pow" -> powf(vs[1], opp.pow)
      [] opp.tag = "Sin" -> f32_sin(vs[1])

\* value of node i's expression over the current leaf values, ignoring every cache
Eval(ns, i) ==
    IF IsInput(ns, i) THEN ns[i].val
    ELSE Apply(ns[i].opp, [k \in 1..Len(ns[i].opp.args) |-> Eval(ns, ns[i].opp.args[k])])

Range(s) == {s[k] : k \in 1..Len(s)}

\* transitive operand closure of node i (i itself excluded)
Closure(ns, i) ==
    IF IsInput(ns, i) THEN {}
    ELSE Range(ns[i].opp.args) \cup UNION {Closure(ns, a) : a \in Range(ns[i].opp.args)}

\* number of occurrences of e in sequence s
Count(s, e) == Cardinality({k \in 1..Len(s) : s[k] = e})

Operands(ns, i) == IF IsInput(ns, i) THEN <<>> ELSE ns[i].opp.args

NodeIds == {i \in Ids : IsNode(nodes, i)}
InputIds == {i \in Ids : IsInput(nodes, i)}
PreIds == 1..Len(last.pre)

RECURSIVE Dedup(_)
\* a sequence with only the first occurrence of each element kept
Dedup(s) ==
    IF s = <<>> THEN <<>>
    ELSE LET front == Dedup(SubSeq(s, 1, Len(s) - 1))
             e == s[Len(s)]
         IN IF e \in Range(front) THEN front ELSE Append(front, e)

\* the arena with every dependents list holding each dependent once
DedupDeps(ns) == [i \in 1..Len(ns) |-> [ns[i] EXCEPT !.dependencies = Dedup(@)]]

\* the arena without its dependents lists: leaf values, operations and caches
Strip(ns) == [i \in 1..Len(ns) |-> [ns[i] EXCEPT !.dependencies = <<>>]]

(* ---------------------------- ownership -------------------------------- *)
\* The nodes that node o holds a strong Rc to: its operands (Operation's fields)
\* and its dependents (dependencies: Vec<Rc<RefCell<dyn Computable>>>).
StrongRefs(ns, o) == Range(Operands(ns, o)) \cup Range(ns[o].dependencies)

RECURSIVE Alive(_, _, _)
\* Rc drop: starting from the nodes in A, a node is destroyed when the caller holds
\* no handle to it (H) and no surviving node holds a strong Rc to it; destroying a
\* node drops the Rcs it holds.  The result is the set of nodes never destroyed.
Alive(ns, H, A) ==
    LET dead == {n \in A : n \notin H /\ \A o \in A : n \notin StrongRefs(ns, o)}
    IN IF dead = {} THEN A ELSE Alive(ns, H, A \ dead)

\* the positions of the call stack whose activation holds a RefMut of its node
Borrowing(st) == {j \in 1..Len(st) : st[j].fn # "construct"}

(* ---------------------------- claims ----------------------------------- *)

\* C1: compute() on any node returns the value of the node's expression evaluated
\* without memoization over the current leaf values.
C1_ComputeReturnsExpressionValue ==
    last.op = "compute" => last.ret = Eval(nodes, last.node)

\* C1 witness: compute() on a nested expression node (one with an expression operand)
\* whose cache was None returned a nonzero value.
C1_Witness ==
    /\ last.op = "compute"
    /\ IsNode(nodes, last.node)
    /\ \E a \in Range(nodes[last.node].opp.args) : IsNode(nodes, a)
    /\ last.pre[last.node].cache = None
    /\ last.ret # 0

\* C2: a cache that is Some(v) holds the operation applied to the current values
\* of the operands.
C2_CacheNeverStale ==
    \A i \in NodeIds :
        nodes[i].cache # None => nodes[i].cache[1] = Eval(nodes, i)

\* C2 witness: a set() has just completed and an expression node still holds a cache.
C2_Witness ==
    /\ last.op = "set"
    /\ \E i \in NodeIds : nodes[i].cache # None /\ Closure(nodes, i) # {}

\* C3: when L.set(v) returns, every expression node that has L in its transitive
\* operand closure has cache None.
C3_SetInvalidatesDownstream ==
    last.op = "set" =>
        \A i \in NodeIds : last.node \in Closure(nodes, i) => nodes[i].cache = None

\* C3 witness: set(v) with v equal to the previous value cleared a cached node
\* two hops away from the leaf.
C3_Witness ==
    /\ last.op = "set"
    /\ last.pre[last.node].val = last.arg
    /\ \E i \in NodeIds :
        /\ last.node \in Closure(nodes, i)
        /\ last.node \notin Range(nodes[i].opp.args)
        /\ last.pre[i].cache # None
        /\ nodes[i].cache = None

\* C4: L.set(v) leaves the cache of every expression node outside L's downstream
\* unchanged and the value of every other leaf unchanged.
C4_SetIsLocal ==
    last.op = "set" =>
        /\ \A i \in NodeIds :
             last.node \notin Closure(nodes, i) => nodes[i].cache = last.pre[i].cache
        /\ \A j \in InputIds : j # last.node => nodes[j].val = last.pre[j].val

\* C4 witness: a set() that changed leaf L's value returned while an expression node
\* over another leaf still holds its cache.
C4_Witness ==
    /\ last.op = "set"
    /\ last.pre[last.node].val # last.arg
    /\ \E i \in NodeIds :
         /\ last.node \notin Closure(nodes, i)
         /\ Closure(nodes, i) # {}
         /\ nodes[i].cache # None

\* C5: compute() on an expression node whose cache is Some(v) returns v and invokes
\* compute() on none of its operands (the only compute() logged is the call itself).
C5_CacheHitTouchesNoOperand ==
    (last.op = "compute" /\ IsNode(nodes, last.node) /\ last.pre[last.node].cache # None)
        => (last.ret = last.pre[last.node].cache[1] /\ last.calls = <<last.node>>)

\* C6: every compute() on a node returns the result of the first compute() on that
\* node since the last set(), and leaves an expression node's cache equal to it.
C6_RepeatedComputeSameResult ==
    last.op = "compute" =>
        /\ first[last.node] = Some(last.ret)
        /\ IsNode(nodes, last.node) => nodes[last.node].cache = first[last.node]

\* C6 witness: a compute() on an expression node that already held a cache (a repeated
\* call) returned a nonzero value.
C6_Witness ==
    /\ last.op = "compute"
    /\ IsNode(nodes, last.node)
    /\ last.pre[last.node].cache # None
    /\ Closure(nodes, last.node) # {}
    /\ last.ret # 0

\* C7: a constructor returns a new node with cache None, and node n occurs in node
\* o's dependents list exactly as often as o occurs among n's operands.
C7_DependentsMirrorOperands ==
    /\ last.op \in Constructors =>
         /\ last.node = Len(last.pre) + 1
         /\ Len(nodes) = Len(last.pre) + 1
         /\ nodes[last.node].cache = None
    /\ \A o \in Ids : \A n \in Ids :
         Count(nodes[o].dependencies, n) = Count(Operands(nodes, n), o)

\* C7 witness: a constructor has just wired a node that uses one expression node at
\* two operand positions, while a leaf already has a dependent wired once.
C7_Witness ==
    /\ last.op \in Constructors
    /\ \E o \in NodeIds : Count(nodes[o].dependencies, last.node) = 2
    /\ \E o \in InputIds : \E n \in Ids : Count(nodes[o].dependencies, n) = 1

\* C8: set(v) on a non-leaf node is a silent no-op: the call completes and the whole
\* arena (that node's operation and cache, every cache, every leaf value) is unchanged.
C8_SetOnExpressionIsNoOp ==
    (last.op = "set" /\ ~IsOpsInput(nodes, last.node)) => nodes = last.pre

\* C8 witness: set(1) was called on a cached non-leaf node whose cached value is not 1
\* and which has a cached dependent.
C8_Witness ==
    /\ last.op = "set"
    /\ last.arg = 1
    /\ ~IsOpsInput(nodes, last.node)
    /\ nodes[last.node].cache \notin {None, Some(1)}
    /\ \E d \in Range(nodes[last.node].deps) : nodes[d].cache # None

\* C9: compute() on a leaf returns the value given at construction or by the most
\* recent set() on it, and changes no state.
C9_LeafComputeIsPure ==
    /\ last.op = "from_val" => nodes[last.node].val = last.arg
    /\ last.op = "set" => nodes[last.node].val = last.arg
    /\ \A j \in PreIds :
         (IsInput(last.pre, j) /\ ~(last.op = "set" /\ last.node = j))
             => nodes[j].val = last.pre[j].val
    /\ (last.op = "compute" /\ IsInput(nodes, last.node))
         => (last.ret = nodes[last.node].val /\ nodes = last.pre)

\* C9 witness: compute() on a leaf that has a cached dependent returned the value 1.
C9_Witness ==
    /\ last.op = "compute"
    /\ IsInput(nodes, last.node)
    /\ last.ret = 1
    /\ \E d \in Range(nodes[last.node].dependencies) : nodes[d].cache # None

\* C10: an AddVar node evaluates to the left fold of + with seed 0 over its operands'
\* values in declared order; add_var([]) gives 0 and add_var([a]) gives a's value.
C10_AddVarIsLeftFold ==
    (last.op = "compute" /\ IsNode(nodes, last.node)
        /\ nodes[last.node].opp.tag = "AddVar") =>
        LET args == nodes[last.node].opp.args
            vs == [k \in 1..Len(args) |-> Eval(nodes, args[k])]
        IN /\ last.ret = FoldPlus(vs, 0)
           /\ Len(args) = 0 => last.ret = 0
           /\ Len(args) = 1 => last.ret = vs[1]

\* C10 witness: an AddVar node over two operands computed to a nonzero sum.
C10_Witness ==
    /\ last.op = "compute"
    /\ IsNode(nodes, last.node)
    /\ nodes[last.node].opp.tag = "AddVar"
    /\ Len(nodes[last.node].opp.args) = 2
    /\ last.ret = 2
\* C11: for operand values x (first) and y (second), an Add node evaluates to x + y,
\* a Sub node to x - y and a Mul node to x * y.
C11_BinaryOperatorTable ==
    (last.op = "compute" /\ IsNode(nodes, last.node)) =>
        LET opp == nodes[last.node].opp
            x == Eval(nodes, opp.args[1])
            y == Eval(nodes, opp.args[2])
        IN /\ opp.tag = "Add" => last.ret = x + y
           /\ opp.tag = "Sub" => last.ret = x - y
           /\ opp.tag = "Mul" => last.ret = x * y

\* C11 witness: a Sub node whose first operand is worth 0 and whose second is worth 1
\* computed to -1.
C11_Witness ==
    /\ last.op = "compute"
    /\ IsNode(nodes, last.node)
    /\ nodes[last.node].opp.tag = "Sub"
    /\ Eval(nodes, nodes[last.node].opp.args[1]) = 0
    /\ Eval(nodes, nodes[last.node].opp.args[2]) = 1
    /\ last.ret = -1
\* C12: dependents edges are non-owning: whatever handles H the caller keeps, a node
\* that is not in H and that no surviving node holds as an operand is destroyed.
C12_DependentsAreNonOwning ==
    \A H \in SUBSET Ids :
        LET A == Alive(nodes, H, Ids)
        IN \A n \in Ids :
             (n \notin H /\ \A o \in A : n \notin Range(Operands(nodes, o)))
                 => n \notin A
\* C13: every compute(), every set() and every constructor call that has been entered
\* returns: the call stack eventually empties, with no visited-set kept.
C13_EveryCallTerminates == (stack # <<>>) ~> (stack = <<>>)

\* C13 witness: set() on a leaf is three activations deep in reset_cache, on a graph
\* where the leaf reaches the innermost node along two paths.
C13_Witness ==
    /\ Len(stack) = 3
    /\ stack[1].fn = "set"
    /\ stack[3].fn = "reset_cache"
    /\ stack[3].node \in Range(nodes[stack[1].node].dependencies)
    /\ stack[3].node \in Range(nodes[stack[2].node].dependencies)
\* C14: wiring a dependent several times is harmless: x1 * add_var([x1, x1]) computes
\* to v * (v + v) for leaf value v (8 for v = 2), and every set() and compute() leaves
\* the same caches and returns the same result as it would if every dependents list
\* held each dependent once.
C14_DuplicateDependentsHarmless ==
    /\ (last.op = "compute" /\ IsNode(nodes, last.node)) =>
         LET opp == nodes[last.node].opp
             x == opp.args[1]
             a == opp.args[2]
         IN (/\ opp.tag = "Mul"
             /\ IsInput(nodes, x)
             /\ IsNode(nodes, a)
             /\ nodes[a].opp = Operation("AddVar", <<x, x>>, 0))
                => /\ last.ret = nodes[x].val * (nodes[x].val + nodes[x].val)
                   /\ nodes[x].val = 2 => last.ret = 8
    /\ last.op = "set" =>
         Strip(nodes) = Strip(set(DedupDeps(last.pre), last.node, last.arg))
    /\ last.op = "compute" =>
         LET r == compute([nodes |-> DedupDeps(last.pre), calls |-> <<>>], last.node)
         IN r.ret = last.ret /\ Strip(r.m.nodes) = Strip(nodes)

\* C14 witness: the first compute() on x1 * add_var([x1, x1]) with x1 = 2 returned 8,
\* x1's dependents list naming the add_var node twice.
C14_Witness ==
    /\ last.op = "compute"
    /\ last.ret = 8
    /\ IsNode(nodes, last.node)
    /\ nodes[last.node].opp.tag = "Mul"
    /\ LET x == nodes[last.node].opp.args[1]
           a == nodes[last.node].opp.args[2]
       IN /\ IsInput(nodes, x)
          /\ nodes[x].val = 2
          /\ IsNode(nodes, a)
          /\ nodes[a].opp = Operation("AddVar", <<x, x>>, 0)
          /\ Count(nodes[x].dependencies, a) = 2
    /\ last.pre[last.node].cache = None
    /\ first[last.node] = Some(8)
\* C16: a computing expression node calls compute() on its operands in declared order:
\* the operand being computed is the k-th one exactly when the k-1 operands before it
\* have returned their results and no later operand has been called.
C16_OperandsLeftToRight ==
    \A j \in 1..Len(stack) :
        (stack[j].fn = "compute" /\ IsNode(nodes, stack[j].node)) =>
            LET p == stack[j]
                args == nodes[p.node].opp.args
            IN /\ Len(p.res) = p.k - 1
               /\ p.k <= Len(args) + 1
               /\ j < Len(stack) =>
                    /\ stack[j + 1].fn = "compute"
                    /\ p.k <= Len(args)
                    /\ stack[j + 1].node = args[p.k]

\* C16 witness: a binary node entered with cache None has received its first operand's
\* result and is computing its second operand, a different node.
C16_Witness ==
    /\ Len(stack) >= 2
    /\ stack[1].fn = "compute"
    /\ IsNode(nodes, stack[1].node)
    /\ stack[1].old = None
    /\ nodes[stack[1].node].opp.tag \in {"Add", "Sub", "Mul"}
    /\ nodes[stack[1].node].opp.args[1] # nodes[stack[1].node].opp.args[2]
    /\ stack[1].k = 2
    /\ Len(stack[1].res) = 1
    /\ stack[2].node = nodes[stack[1].node].opp.args[2]
\* C17: when compute() returns r on an expression node, that node's cache is Some(r).
C17_CacheHoldsReturnedValue ==
    (last.op = "compute" /\ IsNode(nodes, last.node))
        => nodes[last.node].cache = Some(last.ret)

\* C17 witness: compute() on an expression node over a leaf, entered with cache None,
\* returned 2 and left Some(2) in the cache.
C17_Witness ==
    /\ last.op = "compute"
    /\ IsNode(nodes, last.node)
    /\ Closure(nodes, last.node) # {}
    /\ last.pre[last.node].cache = None
    /\ last.ret = 2
    /\ nodes[last.node].cache = Some(2)
\* C18: no node is borrowed re-entrantly: at every step of a compute(), a set() or a
\* constructor, no two activations on the call stack hold a RefMut of the same node.
C18_NoReentrantBorrow ==
    \A j1 \in Borrowing(stack) : \A j2 \in Borrowing(stack) :
        j1 # j2 => stack[j1].node # stack[j2].node

\* C18 witness: compute() on a node that uses the same expression node at both operand
\* positions is three borrows deep, inside the second visit of that operand.
C18_Witness ==
    /\ Len(stack) = 3
    /\ \A j \in 1..3 : stack[j].fn = "compute"
    /\ nodes[stack[1].node].opp.tag \in {"Add", "Sub", "Mul"}
    /\ nodes[stack[1].node].opp.args[1] = nodes[stack[1].node].opp.args[2]
    /\ stack[1].k = 2
\* C19 (as stated): after an Expression node is constructed, no later operation changes
\* its operation or its dependents list; only its cache changes.
C19_OnlyCacheEverChanges ==
    \A i \in PreIds :
        IsNode(last.pre, i) =>
            /\ nodes[i].opp = last.pre[i].opp
            /\ nodes[i].dependencies = last.pre[i].dependencies

\* C19 (amended): an Expression node's operation never changes; compute() and set() (with
\* the reset_cache() calls it makes) leave its dependents list as it was; a constructor
\* appends the new node to it once per operand position the node occupies, and changes
\* nothing else of it.
C19_OperationFixedDependentsOnlyAppended ==
    \A i \in PreIds :
        IsNode(last.pre, i) =>
            /\ IsNode(nodes, i)
            /\ nodes[i].opp = last.pre[i].opp
            /\ nodes[i].dependencies =
                  IF last.op \in Constructors
                  THEN last.pre[i].dependencies \o
                       [k \in 1..Count(nodes[last.node].opp.args, i) |-> last.node]
                  ELSE last.pre[i].dependencies
            /\ (last.op \in Constructors => nodes[i].cache = last.pre[i].cache)

\* C19 witness: a constructor has just built a node over an existing Expression node,
\* whose dependents list grew from empty to hold the new node.
C19_Witness ==
    /\ last.op \in Constructors
    /\ \E i \in PreIds :
          /\ IsNode(last.pre, i)
          /\ last.pre[i].dependencies = <<>>
          /\ nodes[i].dependencies # <<>>
          /\ nodes[i].opp = last.pre[i].opp

\* C20: set() leaves every dependents list as it was, the leaf's included, so a second
\* set() on the same leaf visits the same downstream nodes: applied again to the state
\* set() produced, it changes nothing.
C20_SetKeepsDependents ==
    last.op = "set" =>
        /\ \A i \in PreIds : nodes[i].dependencies = last.pre[i].dependencies
        /\ set(nodes, last.node, last.arg) = nodes

\* C20 witness: set() on a leaf with dependents, after a compute() had filled the cache
\* of one of them; that cache is None again and the leaf still lists the dependent.
C20_Witness ==
    /\ last.op = "set"
    /\ \E d \in Range(last.pre[last.node].dependencies) :
          /\ last.pre[d].cache # None
          /\ nodes[d].cache = None
          /\ d \in Range(nodes[last.node].dependencies)
\* C21: in graph.rs a leaf's cache is Some(its current value) in every reachable state:
\* after input(x), after every set(v) on it, after set on other leaves and after compute
\* on any node; no invalidation clears it.
C21_LeafCacheIsItsValue ==
    \A i \in Ids : IsOpsInput(nodes, i) => nodes[i].cache = Some(nodes[i].val.x)

\* C21 witness: set(v) with a new value on a leaf that has dependents left the leaf's
\* cache at Some(v) while a dependent's cache was cleared.
C21_Witness ==
    /\ last.op = "set"
    /\ IsOpsInput(nodes, last.node)
    /\ last.pre[last.node].val.x # last.arg
    /\ nodes[last.node].cache = Some(last.arg)
    /\ \E d \in Range(nodes[last.node].deps) :
          last.pre[d].cache # None /\ nodes[d].cache = None
\* C22: between completed operations, an Expression node with cache Some has cache Some
\* at every Expression node of its transitive operand closure.
C22_CachedNodeHasCachedOperands ==
    \A i \in NodeIds :
        nodes[i].cache # None =>
            \A a \in Closure(nodes, i) : IsNode(nodes, a) => nodes[a].cache # None

\* C22 witness: compute() on an Expression node over another Expression node, both
\* entered with cache None, left both with cache Some.
C22_Witness ==
    /\ last.op = "compute"
    /\ IsNode(nodes, last.node)
    /\ nodes[last.node].cache # None
    /\ last.pre[last.node].cache = None
    /\ \E a \in Closure(nodes, last.node) :
          IsNode(nodes, a) /\ last.pre[a].cache = None /\ nodes[a].cache # None
\* C23: N.compute() changes no leaf value, no dependents list and no operand wiring; it
\* leaves every node outside N's transitive operand closure (N included in the closure)
\* exactly as it was, and turns no cache from Some to None.
C23_ComputeFrame ==
    last.op = "compute" =>
        \A i \in PreIds :
            /\ nodes[i].kind = last.pre[i].kind
            /\ nodes[i].dependencies = last.pre[i].dependencies
            /\ (IsInput(nodes, i) => nodes[i].val = last.pre[i].val)
            /\ (IsNode(nodes, i) => nodes[i].opp = last.pre[i].opp)
            /\ (i \notin Closure(nodes, last.node) \cup {last.node} => nodes[i] = last.pre[i])
            /\ (IsNode(nodes, i) /\ last.pre[i].cache # None => nodes[i].cache # None)

\* C23 witness: compute() ran on an Expression node N that has a dependent outside its
\* closure; N's cache went from None to Some, the dependent kept its cache None, and a
\* leaf in the closure kept its value and dependents list.
C23_Witness ==
    /\ last.op = "compute"
    /\ IsNode(nodes, last.node)
    /\ last.pre[last.node].cache = None
    /\ nodes[last.node].cache # None
    /\ \E d \in Range(nodes[last.node].dependencies) :
          /\ d \notin Closure(nodes, last.node)
          /\ nodes[d].cache = None
    /\ \E l \in Closure(nodes, last.node) :
          IsInput(nodes, l) /\ nodes[l] = last.pre[l] /\ nodes[l].dependencies # <<>>
====
